---- MODULE Spec2Model ----
(***************************************************************************)
(* Model of the Helty VMC protocol handler (src/protocol.py).              *)
(*                                                                         *)
(* Spec      : concurrent callers of HeltyVMCProtocol._send_command on one *)
(*             handler; one action per await-to-await segment of the       *)
(*             coroutine (asyncio runs a coroutine atomically between      *)
(*             awaits).                                                    *)
(* QuerySpec : the public queries (get_status, get_sensors, get_info,      *)
(*             check_connection, send_raw_command) applied to every        *)
(*             outcome of one exchange.                                    *)
(***************************************************************************)
EXTENDS Integers, Sequences, FiniteSets, TLC

VARIABLES
    pc,         \* pc[c]: where caller c's _send_command coroutine is suspended
    command,    \* command[c]: the command text caller c passed
    locked,     \* asyncio.Lock._locked of self._lock
    waiters,    \* asyncio.Lock._waiters of self._lock, in arrival order
    woken,      \* waiters whose future release() has completed
    conn,       \* conn[c]: the connection opened by caller c's current call
    response,   \* response[c]: the bytes reader.read(1024) returned
    result,     \* result[c]: what _send_command returned (or that it raised)
    order,      \* history: callers in the order they entered "async with"
    deviceUp,   \* environment: the device (or the network for it) sends
                \* anything back: data, acknowledgements, resets
    qpc,        \* QuerySpec: "ready" or "returned"
    qop,        \* QuerySpec: the query that ran
    qsent,      \* QuerySpec: the command the query passed to _send_command
    qio,        \* QuerySpec: what the exchange did (see Outcomes)
    qresult,    \* QuerySpec: the value the query returned (or that it raised)
    busy,       \* HomeSpec: the task inside "async with self._lock", if any
    coordinatorData,       \* HomeSpec: coordinator.data, the snapshot held
    requested,  \* HomeSpec: async_request_refresh called, no refresh since
    rpc,        \* HomeSpec: where the refresh (_async_update_data) is
    rsent,      \* HomeSpec: history, the commands this refresh exchanged
    rstatus,    \* HomeSpec: the refresh's local "status", while it runs
    rlast,      \* HomeSpec: how the last refresh ended
    apc,        \* HomeSpec: where the actuation handler is
    acmd,       \* HomeSpec: the command it passes to send_raw_command
    asent,      \* HomeSpec: history, the exchanges it began
    areq        \* HomeSpec: it has called async_request_refresh

vars == <<pc, command, locked, waiters, woken, conn, response, result, order,
          deviceUp, qpc, qop, qsent, qio, qresult, busy, coordinatorData, requested, rpc,
          rsent, rstatus, rlast, apc, acmd, asent, areq>>

sendVars == <<pc, command, locked, waiters, woken, conn, response, result,
              order, deviceUp>>

queryVars == <<qpc, qop, qsent, qio, qresult>>

refreshVars == <<coordinatorData, rpc, rsent, rstatus, rlast>>

actuationVars == <<apc, acmd, asent, areq>>

homeVars == <<busy, requested, refreshVars, actuationVars>>

-----------------------------------------------------------------------------
(* Bounds *)

NumCallers == 2

\* Bytes the socket and the transport take from write() without the peer
\* reading any; drain() suspends only above it (scaled down).
WriteBufferLimit == 11

Callers == 1..NumCallers

-----------------------------------------------------------------------------
(* Text and bytes.  A str is a sequence of one-character strings, a bytes   *)
(* object a sequence of integers 0..255.                                    *)

Ord ==
    ("V" :> 86) @@ ("M" :> 77) @@ ("G" :> 71) @@ ("O" :> 79) @@ ("I" :> 73) @@
    ("H" :> 72) @@ ("N" :> 78) @@ ("W" :> 87) @@ ("S" :> 83) @@ ("L" :> 76) @@
    ("E" :> 69) @@ ("R" :> 82) @@ ("K" :> 75) @@ ("x" :> 120) @@ ("n" :> 110) @@
    ("i" :> 105) @@ ("f" :> 102) @@ ("a" :> 97) @@
    ("?" :> 63) @@ ("," :> 44) @@ ("." :> 46) @@ ("-" :> 45) @@ ("+" :> 43) @@
    ("_" :> 95) @@ (" " :> 32) @@ ("\t" :> 9) @@ ("\n" :> 10) @@ ("\r" :> 13) @@
    ("0" :> 48) @@ ("1" :> 49) @@ ("2" :> 50) @@ ("3" :> 51) @@ ("4" :> 52) @@
    ("5" :> 53) @@ ("6" :> 54) @@ ("7" :> 55) @@ ("8" :> 56) @@ ("9" :> 57)

Chr(b) == CHOOSE ch \in DOMAIN Ord : Ord[ch] = b

\* A byte that no UTF-8 text contains.
BadByte == 255

\* str.encode(): UTF-8 of ASCII text, one byte per character.
Encode(text) == [i \in 1..Len(text) |-> Ord[text[i]]]

\* bytes.decode(): raises UnicodeDecodeError on a byte that is not UTF-8.
Decodable(bytes) == \A i \in 1..Len(bytes) : bytes[i] < 128

DecodeText(bytes) == [i \in 1..Len(bytes) |-> Chr(bytes[i])]

Whitespace == {" ", "\t", "\n", "\r"}

RECURSIVE LStrip(_)
LStrip(s) ==
    IF s # <<>> /\ Head(s) \in Whitespace THEN LStrip(Tail(s)) ELSE s

RECURSIVE RStrip(_)
RStrip(s) ==
    IF s # <<>> /\ s[Len(s)] \in Whitespace
    THEN RStrip(SubSeq(s, 1, Len(s) - 1))
    ELSE s

\* str.strip()
Strip(s) == RStrip(LStrip(s))

\* str.startswith(prefix)
StartsWith(s, prefix) ==
    /\ Len(s) >= Len(prefix)
    /\ SubSeq(s, 1, Len(prefix)) = prefix

\* sep in s
Contains(s, ch) == \E i \in 1..Len(s) : s[i] = ch

\* str.find(ch, from i), counted from 1: the index of the first ch at or
\* after i, 0 when there is none.
FindFrom(s, ch, i) ==
    IF \E k \in i..Len(s) : s[k] = ch
    THEN CHOOSE k \in i..Len(s) :
            s[k] = ch /\ \A j \in i..(k - 1) : s[j] # ch
    ELSE 0

\* str.split(","): the fields of s, at least one.
RECURSIVE Split(_)
Split(s) ==
    LET k == FindFrom(s, ",", 1) IN
    IF k = 0 THEN <<s>>
    ELSE <<SubSeq(s, 1, k - 1)>> \o Split(SubSeq(s, k + 1, Len(s)))

\* ",".join(fields)
RECURSIVE Join(_)
Join(fields) ==
    IF Len(fields) = 0 THEN <<>>
    ELSE IF Len(fields) = 1 THEN fields[1]
    ELSE fields[1] \o <<",">> \o Join(Tail(fields))

-----------------------------------------------------------------------------
(* Commands (src/const.py) *)

CMD_GET_STATUS == <<"V", "M", "G", "H", "?">>
CMD_GET_SENSORS == <<"V", "M", "G", "I", "?">>
CMD_GET_NAME == <<"V", "M", "N", "M", "?">>
CMD_SET_SPEED_3 == <<"V", "M", "W", "H", "0", "0", "0", "0", "0", "0", "3">>

\* A raw command too long for the write buffer.
LongCommand ==
    <<"V", "M", "W", "H">> \o [i \in 1..(WriteBufferLimit - 2) |-> "0"]

-----------------------------------------------------------------------------
(* Values *)

\* An optional value: None, or the value v.
Nothing == [present |-> FALSE, v |-> <<>>]
Some(x) == [present |-> TRUE, v |-> x]

\* How a coroutine ended: it returned val, or an exception left it.
Pending == [kind |-> "pending", val |-> Nothing]
Returned(x) == [kind |-> "returned", val |-> x]
Raised == [kind |-> "raised", val |-> Nothing]

\* reader.read(1024)
ReadSize == 1024

NoConn == [state |-> "none", sent |-> <<>>, inbox |-> Nothing]

\* What the device may put on a connection in the concurrent model: a status
\* frame with surrounding whitespace, nothing before it closes, bytes that
\* are no text.
ReplyStatus ==
    Encode(<<" ", "V", "M", "G", "O", ",", "0", "0", "0", "0", "3", "\r", "\n">>)
ReplyEmpty == <<>>
ReplyGarbled == <<BadByte>>
SendReplies == {ReplyStatus, ReplyEmpty, ReplyGarbled}

SendCommands == {CMD_GET_STATUS, LongCommand}

-----------------------------------------------------------------------------
(* _send_command, lines 67-96 *)

\* response.decode().strip() and return decoded (lines 87-89); a
\* UnicodeDecodeError is neither asyncio.TimeoutError nor OSError and leaves
\* _send_command.
Received(bytes) ==
    IF Decodable(bytes)
    THEN Returned(Some(Strip(DecodeText(bytes))))
    ELSE Raised

\* The handlers missing: the exception leaves _send_command.
FailedRaises == Raised

\* except asyncio.TimeoutError / except OSError: return None (lines 91-96)
Failed == Returned(Nothing)

\* A lock that lets a newcomer pass the queue when nobody holds it.
LockFreeBarging == ~locked

\* No lock at all.
LockFreeUnchecked == TRUE

\* The gate of "async with self._lock" (line 69): asyncio.Lock.acquire takes
\* the lock at once only when it is free and nobody is queued for it.
LockFree == ~locked /\ waiters = <<>>

\* The connection reader.read reads from: the one this call opened.
ReadSource(c) == c

InExchange == {"connect", "drain", "read", "wait_closed"}

Remove(seq, c) == SelectSeq(seq, LAMBDA x : x # c)

\* The lock released by hand after the return of the text only: a failed
\* exchange keeps it.
LeaveHoldingOnFailure(c, r) ==
    /\ pc' = [pc EXCEPT ![c] = "done"]
    /\ result' = [result EXCEPT ![c] = r]
    /\ locked' = (r = Returned(Nothing))
    /\ woken' = IF waiters # <<>> /\ r # Returned(Nothing)
                THEN woken \cup {Head(waiters)} ELSE woken
    /\ order' = Remove(order, c)
    /\ UNCHANGED <<command, waiters, deviceUp, queryVars, homeVars>>

\* Leaving "async with self._lock" with outcome r: the lock is released and
\* the first waiter's future completed, then r reaches the caller.
Leave(c, r) ==
    /\ pc' = [pc EXCEPT ![c] = "done"]
    /\ result' = [result EXCEPT ![c] = r]
    /\ locked' = FALSE
    /\ woken' = IF waiters # <<>> THEN woken \cup {Head(waiters)} ELSE woken
    /\ order' = Remove(order, c)
    /\ UNCHANGED <<command, waiters, deviceUp, queryVars, homeVars>>

\* A caller enters _send_command(cmd): "async with self._lock".
Call(c, cmd) ==
    /\ pc[c] = "idle"
    /\ command' = [command EXCEPT ![c] = cmd]
    /\ order' = Append(order, c)
    /\ IF LockFree
       THEN /\ locked' = TRUE
            /\ pc' = [pc EXCEPT ![c] = "connect"]
            /\ UNCHANGED waiters
       ELSE /\ waiters' = Append(waiters, c)
            /\ pc' = [pc EXCEPT ![c] = "waiting"]
            /\ UNCHANGED locked
    /\ UNCHANGED <<woken, conn, response, result, deviceUp, queryVars, homeVars>>

\* A woken waiter leaves the queue and takes the lock.
Resume(c) ==
    /\ pc[c] = "waiting"
    /\ c \in woken
    /\ waiters' = Remove(waiters, c)
    /\ woken' = woken \ {c}
    /\ locked' = TRUE
    /\ pc' = [pc EXCEPT ![c] = "connect"]
    /\ UNCHANGED <<command, conn, response, result, order, deviceUp,
                   queryVars, homeVars>>

\* open_connection returned inside wait_for; writer.write(command.encode())
\* and the coroutine suspends in writer.drain() (lines 71-77).
ConnectOk(c) ==
    /\ pc[c] = "connect"
    /\ deviceUp
    /\ conn' = [conn EXCEPT ![c] =
                   [state |-> "open", sent |-> Encode(command[c]),
                    inbox |-> Nothing]]
    /\ pc' = [pc EXCEPT ![c] = "drain"]
    /\ UNCHANGED <<command, locked, waiters, woken, response, result, order,
                   deviceUp, queryVars, homeVars>>

\* wait_for(open_connection, timeout) timed out: asyncio.TimeoutError.
ConnectTimeout(c) ==
    /\ pc[c] = "connect"
    /\ Leave(c, Failed)
    /\ UNCHANGED <<conn, response>>

\* open_connection failed (refused, unreachable): OSError.
ConnectRefused(c) ==
    /\ pc[c] = "connect"
    /\ deviceUp
    /\ Leave(c, Failed)
    /\ UNCHANGED <<conn, response>>

\* writer.drain() returns: at once when the command fits the write buffer,
\* otherwise when the device has read enough of it.  No wait_for bounds it.
DrainDone(c) ==
    /\ pc[c] = "drain"
    /\ Len(conn[c].sent) <= WriteBufferLimit \/ deviceUp
    /\ pc' = [pc EXCEPT ![c] = "read"]
    /\ UNCHANGED <<command, locked, waiters, woken, conn, response, result,
                   order, deviceUp, queryVars, homeVars>>

\* writer.drain() raises: the connection was reset (OSError).
DrainError(c) ==
    /\ pc[c] = "drain"
    /\ deviceUp
    /\ conn' = [conn EXCEPT ![c].state = "reset"]
    /\ Leave(c, Failed)
    /\ UNCHANGED response

\* The device answers on connection c (also after the reader gave up on it).
\* An answer arriving while the caller is still in drain() is seen at the
\* read, so it is taken from there.
DeviceReply(c, bytes) ==
    /\ deviceUp
    /\ pc[c] \in {"read", "done"}
    /\ conn[c].state = "open"
    /\ ~conn[c].inbox.present
    /\ conn' = [conn EXCEPT ![c].inbox = Some(bytes)]
    /\ UNCHANGED <<pc, command, locked, waiters, woken, response, result,
                   order, deviceUp, queryVars, homeVars>>

\* wait_for(reader.read(1024), timeout) returned; writer.close() and the
\* coroutine suspends in writer.wait_closed() (lines 79-85).
ReadDone(c) ==
    /\ pc[c] = "read"
    /\ conn[ReadSource(c)].inbox.present
    /\ LET data == conn[ReadSource(c)].inbox.v IN
       response' = [response EXCEPT ![c] =
                       SubSeq(data, 1, IF Len(data) < ReadSize
                                       THEN Len(data) ELSE ReadSize)]
    /\ conn' = [conn EXCEPT ![c].state = "closing"]
    /\ pc' = [pc EXCEPT ![c] = "wait_closed"]
    /\ UNCHANGED <<command, locked, waiters, woken, result, order,
                   deviceUp, queryVars, homeVars>>

\* wait_for(reader.read(1024), timeout) timed out: asyncio.TimeoutError.  The
\* handler returns None; writer.close() (line 84) is not reached.
ReadTimeout(c) ==
    /\ pc[c] = "read"
    /\ ~conn[c].inbox.present
    /\ Leave(c, Failed)
    /\ UNCHANGED <<conn, response>>

\* reader.read raises: the connection was reset (OSError).
ReadReset(c) ==
    /\ pc[c] = "read"
    /\ deviceUp
    /\ conn' = [conn EXCEPT ![c].state = "reset"]
    /\ Leave(c, Failed)
    /\ UNCHANGED response

\* writer.wait_closed() returned; decode, strip, return (lines 85-89).
WaitClosed(c) ==
    /\ pc[c] = "wait_closed"
    /\ conn' = [conn EXCEPT ![c].state = "closed"]
    /\ Leave(c, Received(response[c]))
    /\ UNCHANGED response

\* writer.wait_closed() raises the error the connection was lost with.
WaitClosedError(c) ==
    /\ pc[c] = "wait_closed"
    /\ deviceUp
    /\ conn' = [conn EXCEPT ![c].state = "reset"]
    /\ Leave(c, Failed)
    /\ UNCHANGED response

\* The caller has the result and may call again.
Again(c) ==
    /\ pc[c] = "done"
    /\ pc' = [pc EXCEPT ![c] = "idle"]
    /\ command' = [command EXCEPT ![c] = <<>>]
    /\ conn' = [conn EXCEPT ![c] = NoConn]
    /\ response' = [response EXCEPT ![c] = <<>>]
    /\ result' = [result EXCEPT ![c] = Pending]
    /\ UNCHANGED <<locked, waiters, woken, order, deviceUp, queryVars, homeVars>>

DeviceStops ==
    /\ deviceUp
    /\ deviceUp' = FALSE
    /\ UNCHANGED <<pc, command, locked, waiters, woken, conn, response, result,
                   order, queryVars, homeVars>>

DeviceRecovers ==
    /\ ~deviceUp
    /\ deviceUp' = TRUE
    /\ UNCHANGED <<pc, command, locked, waiters, woken, conn, response, result,
                   order, queryVars, homeVars>>

\* The steps caller c's coroutine takes once it holds the lock.
Step(c) ==
    \/ ConnectOk(c)
    \/ ConnectTimeout(c)
    \/ ConnectRefused(c)
    \/ DrainDone(c)
    \/ DrainError(c)
    \/ ReadDone(c)
    \/ ReadTimeout(c)
    \/ ReadReset(c)
    \/ WaitClosed(c)
    \/ WaitClosedError(c)

-----------------------------------------------------------------------------
(* int() *)

Digits == {"0", "1", "2", "3", "4", "5", "6", "7", "8", "9"}

DigitVal(ch) == Ord[ch] - 48

\* Without the sign: s[1] when it is + or -.
Unsigned(s) ==
    IF s # <<>> /\ Head(s) \in {"+", "-"} THEN Tail(s) ELSE s

\* Digits, with single underscores allowed between them.
IsNumeral(s) ==
    /\ s # <<>>
    /\ \A i \in 1..Len(s) : s[i] \in Digits \cup {"_"}
    /\ s[1] # "_"
    /\ s[Len(s)] # "_"
    /\ \A i \in 1..(Len(s) - 1) : ~(s[i] = "_" /\ s[i + 1] = "_")

RECURSIVE NumeralValue(_, _)
NumeralValue(s, acc) ==
    IF s = <<>> THEN acc
    ELSE IF Head(s) = "_" THEN NumeralValue(Tail(s), acc)
    ELSE NumeralValue(Tail(s), 10 * acc + DigitVal(Head(s)))

\* int(s) does not raise ValueError
IntOk(s) == IsNumeral(Unsigned(Strip(s)))

\* int(s), when IntOk(s)
IntVal(s) ==
    LET t == Strip(s)
        n == NumeralValue(Unsigned(t), 0)
    IN  IF Head(t) = "-" THEN 0 - n ELSE n

-----------------------------------------------------------------------------
(* get_status, lines 103-149 *)

NoBool == [present |-> FALSE, v |-> FALSE]
SomeBool(b) == [present |-> TRUE, v |-> b]

\* A table that names the highest mode for every speed above it.
SpeedModeSaturating(v) ==
    CASE v = 0 -> "off"
      [] v = 1 -> "speed_1"
      [] v = 2 -> "speed_2"
      [] v = 3 -> "speed_3"
      [] v = 4 -> "speed_4"
      [] v = 5 -> "boost"
      [] v = 6 -> "night"
      [] v >= 7 -> "free_cooling"
      [] OTHER -> "unknown"

\* SPEED_MODES.get(speed_val, "unknown") (src/const.py lines 32-41)
SpeedMode(v) ==
    CASE v = 0 -> "off"
      [] v = 1 -> "speed_1"
      [] v = 2 -> "speed_2"
      [] v = 3 -> "speed_3"
      [] v = 4 -> "speed_4"
      [] v = 5 -> "boost"
      [] v = 6 -> "night"
      [] v = 7 -> "free_cooling"
      [] OTHER -> "unknown"

\* VMCStatus() (lines 21-30)
StatusDefault ==
    [speed |-> 0, speed_mode |-> "off", is_online |-> FALSE, led_on |-> NoBool,
     led_filter_warning |-> FALSE, sensors_on |-> NoBool]

VMGO == <<"V", "M", "G", "O">>
T00000 == <<"0", "0", "0", "0", "0">>
T00001 == <<"0", "0", "0", "0", "1">>
T00032 == <<"0", "0", "0", "3", "2">>

\* parts[i], Python's index from 0
Field(parts, i) == parts[i + 1]

\* "if response and response.startswith("VMGO")" (line 114); resp is what
\* _send_command returned, None or a str.
IsStatusFrame(resp) ==
    /\ resp.present
    /\ resp.v # <<>>
    /\ StartsWith(resp.v, VMGO)

\* Any reply without the prefix counted as offline.
OnlineNever(resp) == FALSE

\* The else branch (lines 146-147).
OnlineWithoutFrame(resp) == resp.present

\* is_online set once the prefix is seen, before field 1 is parsed.
WithSpeedOnlineFirst(status, parts) ==
    IF Len(parts) > 1 /\ IsNumeral(Unsigned(Strip(parts[2])))
    THEN [status EXCEPT !.speed = IntVal(parts[2]),
                        !.speed_mode = SpeedMode(IntVal(parts[2])),
                        !.is_online = TRUE]
    ELSE [status EXCEPT !.is_online = TRUE]

\* Speed [1] (lines 119-126)
WithSpeed(status, parts) ==
    IF Len(parts) > 1 /\ IntOk(Field(parts, 1))
    THEN [status EXCEPT !.speed = IntVal(Field(parts, 1)),
                        !.speed_mode = SpeedMode(IntVal(Field(parts, 1))),
                        !.is_online = TRUE]
    ELSE status

\* The sensors status read one field later, at index 5.
WithSensorsOnFieldFive(status, parts) ==
    IF Len(parts) > 5
    THEN [status EXCEPT !.sensors_on =
             SomeBool(parts[6] \in {T00000, T00001})]
    ELSE status

\* Sensors status [4] (lines 129-135)
WithSensorsOn(status, parts) ==
    IF Len(parts) > 4
    THEN [status EXCEPT !.sensors_on =
             SomeBool(Field(parts, 4) \in {T00000, T00001})]
    ELSE status

\* The filter warning raised by any lit LED.
WithLedWarningWhenLit(status, parts) ==
    IF Len(parts) > 14
    THEN [status EXCEPT !.led_on = SomeBool(parts[15] # T00000),
                        !.led_filter_warning = (parts[15] # T00000)]
    ELSE status

\* LED panel status [14] (lines 138-145)
WithLed(status, parts) ==
    IF Len(parts) > 14
    THEN [status EXCEPT !.led_on = SomeBool(Field(parts, 14) # T00000),
                        !.led_filter_warning = (Field(parts, 14) = T00032)]
    ELSE status

\* The status get_status builds from what _send_command returned.
StatusOf(resp) ==
    IF IsStatusFrame(resp)
    THEN LET parts == Split(resp.v)
         IN  WithLed(WithSensorsOn(WithSpeed(StatusDefault, parts), parts), parts)
    ELSE [StatusDefault EXCEPT !.is_online = OnlineWithoutFrame(resp)]

-----------------------------------------------------------------------------
(* Numbers.  A float is num / 10^scale, kept with the least scale, or one   *)
(* of inf, -inf, nan.                                                       *)

RECURSIVE Norm(_, _)
Norm(num, scale) ==
    IF scale > 0 /\ num % 10 = 0
    THEN Norm(num \div 10, scale - 1)
    ELSE [kind |-> "finite", num |-> num, scale |-> scale]

Inf == [kind |-> "inf", num |-> 0, scale |-> 0]
NegInf == [kind |-> "-inf", num |-> 0, scale |-> 0]
NaN == [kind |-> "nan", num |-> 0, scale |-> 0]

NoNumber == [present |-> FALSE, v |-> Norm(0, 0)]
SomeNumber(x) == [present |-> TRUE, v |-> x]

NoInt == [present |-> FALSE, v |-> 0]
SomeInt(n) == [present |-> TRUE, v |-> n]

RECURSIVE Pow10(_)
Pow10(k) == IF k = 0 THEN 1 ELSE 10 * Pow10(k - 1)

\* x / 10
DivTen(x) == IF x.kind = "finite" THEN Norm(x.num, x.scale + 1) ELSE x

\* -x
Neg(x) ==
    CASE x.kind = "finite" -> Norm(0 - x.num, x.scale)
      [] x.kind = "inf" -> NegInf
      [] x.kind = "-inf" -> Inf
      [] OTHER -> x

\* x > 0 (false for nan)
Positive(x) == (x.kind = "finite" /\ x.num > 0) \/ x.kind = "inf"

\* The value passed on as it is.
CapNothing(x) == x

\* min(x, 100.0), for x > 0
CapHundred(x) ==
    IF x.kind = "inf" \/ x.num > 100 * Pow10(x.scale) THEN Norm(100, 0) ELSE x

\* The digits of a numeral that count: no underscores, no leading zeros.
RECURSIVE Significant(_)
Significant(s) ==
    IF s = <<>> THEN <<>>
    ELSE IF Head(s) \in {"0", "_"} THEN Significant(Tail(s))
    ELSE SelectSeq(s, LAMBDA ch : ch # "_")

\* The longest numeral a float holds for certain: int / 10 raises
\* OverflowError above it.  (A numeral of just this many digits overflows
\* when it reaches 2^1024; none is drawn.)
FloatDigits == 309

\* int(s) / 10 raises OverflowError, when IntOk(s)
DivOverflows(s) == Len(Significant(Unsigned(Strip(s)))) > FloatDigits

\* float(): the words it takes besides numerals
InfWords == {<<"i", "n", "f">>, <<"i", "n", "f", "i", "n", "i", "t", "y">>}
NanWords == {<<"n", "a", "n">>}

\* A decimal numeral without exponent: digits, a point, or both.
DecimalOk(u) ==
    LET k == FindFrom(u, ".", 1)
        whole == IF k = 0 THEN u ELSE SubSeq(u, 1, k - 1)
        frac == IF k = 0 THEN <<>> ELSE SubSeq(u, k + 1, Len(u))
    IN  /\ whole = <<>> \/ IsNumeral(whole)
        /\ frac = <<>> \/ IsNumeral(frac)
        /\ whole # <<>> \/ frac # <<>>

DecimalVal(u) ==
    LET k == FindFrom(u, ".", 1)
        whole == IF k = 0 THEN u ELSE SubSeq(u, 1, k - 1)
        frac == IF k = 0 THEN <<>> ELSE SubSeq(u, k + 1, Len(u))
        places == Len(SelectSeq(frac, LAMBDA ch : ch # "_"))
    IN  [num |-> NumeralValue(whole \o frac, 0), scale |-> places]

\* float(s) does not raise ValueError (numerals with an exponent are not
\* drawn and not covered).
FloatOk(s) ==
    LET u == Unsigned(Strip(s))
    IN  u \in InfWords \/ u \in NanWords \/ DecimalOk(u)

\* float(s), when FloatOk(s): a numeral too long for a float gives inf.
FloatVal(s) ==
    LET t == Strip(s)
        u == Unsigned(t)
        neg == Head(t) = "-"
        k == FindFrom(u, ".", 1)
        whole == IF k = 0 THEN u ELSE SubSeq(u, 1, k - 1)
    IN  IF u \in NanWords THEN NaN
        ELSE IF u \in InfWords \/ Len(Significant(whole)) > FloatDigits
        THEN (IF neg THEN NegInf ELSE Inf)
        ELSE LET d == DecimalVal(u)
             IN  Norm(IF neg THEN 0 - d.num ELSE d.num, d.scale)

-----------------------------------------------------------------------------
(* get_sensors, lines 151-202, and the parse rules, lines 220-258 *)

\* A parse rule's outcome: the reading, or the exception that left it.
Reading(x) == [raised |-> FALSE, r |-> x]
ParseRaised == [raised |-> TRUE, r |-> NoNumber]

\* _parse_temperature (lines 220-240)
ParseTemperature(value) ==
    LET t == Strip(value) IN
    IF t = <<>> THEN Reading(NoNumber)
    ELSE IF Head(t) = "1" /\ Len(t) = 5
    THEN IF IntOk(Tail(t))
         THEN Reading(SomeNumber(Neg(Norm(IntVal(Tail(t)), 1))))
         ELSE Reading(NoNumber)
    ELSE IF ~IntOk(t) THEN Reading(NoNumber)
    ELSE IF DivOverflows(t) THEN ParseRaised
    ELSE Reading(SomeNumber(Norm(IntVal(t), 1)))

\* _parse_humidity (lines 242-249)
ParseHumidity(value) ==
    IF ~FloatOk(value) THEN NoNumber
    ELSE LET val == DivTen(FloatVal(value))
         IN  IF Positive(val) THEN SomeNumber(CapHundred(val)) ELSE NoNumber

\* Zero counted as a reading.
ParseIntFromZero(value) ==
    IF IntOk(value) /\ IntVal(value) >= 0 THEN SomeInt(IntVal(value)) ELSE NoInt

\* _parse_int (lines 251-258)
ParseInt(value) ==
    IF IntOk(value) /\ IntVal(value) > 0 THEN SomeInt(IntVal(value)) ELSE NoInt

\* VMCSensors() (lines 33-42)
SensorsDefault ==
    [temperature_external |-> NoNumber, temperature_internal |-> NoNumber,
     humidity_internal |-> NoNumber, co2 |-> NoInt, voc |-> NoInt,
     filter_hours |-> NoInt]

VMIO == <<"V", "M", "I", "O">>

\* Only a response with the prefix is split.
IsSensorsFramePrefixOnly(resp) ==
    resp.present /\ StartsWith(resp.v, VMIO)

\* The response is split into parts (lines 166-175).
IsSensorsFrame(resp) ==
    /\ resp.present
    /\ resp.v # <<>>
    /\ StartsWith(resp.v, VMIO) \/ Contains(resp.v, ",")

\* The readings of the parts (lines 179-200), when no rule raises.
SensorsOfParts(parts) ==
    [temperature_internal |->
        IF Len(parts) > 1 THEN ParseTemperature(Field(parts, 1)).r ELSE NoNumber,
     temperature_external |->
        IF Len(parts) > 2 THEN ParseTemperature(Field(parts, 2)).r ELSE NoNumber,
     humidity_internal |->
        IF Len(parts) > 3 THEN ParseHumidity(Field(parts, 3)) ELSE NoNumber,
     co2 |-> IF Len(parts) > 4 THEN ParseInt(Field(parts, 4)) ELSE NoInt,
     voc |-> IF Len(parts) > 11 THEN ParseInt(Field(parts, 11)) ELSE NoInt,
     filter_hours |-> NoInt]

\* A parse rule lets an exception out of get_sensors.
SensorsRaise(resp) ==
    /\ IsSensorsFrame(resp)
    /\ \E i \in {1, 2} :
          /\ Len(Split(resp.v)) > i
          /\ ParseTemperature(Field(Split(resp.v), i)).raised

SensorsOf(resp) ==
    IF IsSensorsFrame(resp) THEN SensorsOfParts(Split(resp.v))
    ELSE SensorsDefault

-----------------------------------------------------------------------------
(* One exchange as a single caller sees it: the step it ended at and, when  *)
(* the read returned, the bytes the device sent.                            *)

FailureSteps ==
    {"connect_timeout", "connect_refused", "drain_error", "read_timeout",
     "read_reset", "close_error"}

\* What _send_command returns for an exchange (lines 67-96).
SendCommand(io) ==
    IF io.step = "complete"
    THEN Received(SubSeq(io.bytes, 1, IF Len(io.bytes) < ReadSize
                                      THEN Len(io.bytes) ELSE ReadSize))
    ELSE Failed

\* A query's outcome: the exception _send_command raised goes through it,
\* otherwise it returns value.
Through(sent, value) ==
    IF sent.kind = "raised" THEN Raised ELSE Returned(value)

\* get_status (lines 103-149)
GetStatus(io) ==
    /\ qpc = "ready"
    /\ qpc' = "returned"
    /\ qop' = "get_status"
    /\ qsent' = CMD_GET_STATUS
    /\ qio' = io
    /\ qresult' = Through(SendCommand(io), StatusOf(SendCommand(io).val))
    /\ UNCHANGED <<sendVars, homeVars>>

\* get_sensors (lines 151-202)
GetSensors(io) ==
    /\ qpc = "ready"
    /\ qpc' = "returned"
    /\ qop' = "get_sensors"
    /\ qsent' = CMD_GET_SENSORS
    /\ qio' = io
    /\ qresult' = IF SendCommand(io).kind = "returned"
                     /\ SensorsRaise(SendCommand(io).val)
                  THEN Raised
                  ELSE Through(SendCommand(io), SensorsOf(SendCommand(io).val))
    /\ UNCHANGED <<sendVars, homeVars>>

\* get_info (lines 204-213)
InfoDefault == <<"H", "e", "l", "t", "y", " ", "V", "M", "C">>

InfoOf(resp) ==
    IF resp.present /\ resp.v # <<>> THEN Strip(resp.v) ELSE InfoDefault

GetInfo(io) ==
    /\ qpc = "ready"
    /\ qpc' = "returned"
    /\ qop' = "get_info"
    /\ qsent' = CMD_GET_NAME
    /\ qio' = io
    /\ qresult' = Through(SendCommand(io), InfoOf(SendCommand(io).val))
    /\ UNCHANGED <<sendVars, homeVars>>

\* Any response taken for a connection.
ConnectionOkAnyResponse(resp) == resp.present

\* check_connection (lines 215-218)
ConnectionOk(resp) == resp.present /\ StartsWith(resp.v, VMGO)

CheckConnection(io) ==
    /\ qpc = "ready"
    /\ qpc' = "returned"
    /\ qop' = "check_connection"
    /\ qsent' = CMD_GET_STATUS
    /\ qio' = io
    /\ qresult' = Through(SendCommand(io), ConnectionOk(SendCommand(io).val))
    /\ UNCHANGED <<sendVars, homeVars>>

\* The result tested for truth, which the empty string fails.
RawOkTruthy(resp) == resp.present /\ resp.v # <<>>

\* send_raw_command (lines 98-101)
RawOk(resp) == resp.present

SendRawCommand(cmd, io) ==
    /\ qpc = "ready"
    /\ qpc' = "returned"
    /\ qop' = "send_raw_command"
    /\ qsent' = cmd
    /\ qio' = io
    /\ qresult' = Through(SendCommand(io), RawOk(SendCommand(io).val))
    /\ UNCHANGED <<sendVars, homeVars>>

\* The caller has the result; the next query starts from nothing kept.
QueryAgain ==
    /\ qpc = "returned"
    /\ qpc' = "ready"
    /\ qop' = "none"
    /\ qsent' = <<>>
    /\ qio' = [step |-> "none", bytes |-> <<>>]
    /\ qresult' = Pending
    /\ UNCHANGED <<sendVars, homeVars>>

-----------------------------------------------------------------------------
(* The replies the queries are run on *)

T00002 == <<"0", "0", "0", "0", "2">>
T00003 == <<"0", "0", "0", "0", "3">>
T00009 == <<"0", "0", "0", "0", "9">>
T00010 == <<"0", "0", "0", "1", "0">>

\* Field 1: a speed of the table, one outside it, a negative one, one int()
\* takes with its blank, one it refuses, an empty one.
SpeedFields ==
    {T00003, T00009, <<"-", "1">>, <<" ", "7">>, <<"x", "3">>, <<>>}
SensorsFields == {T00000, T00001, T00002}
LedFields == {T00000, T00032, T00010}

\* Frame lengths: the prefix alone, up to field 1, up to field 4, up to
\* field 14.
FrameLengths == {1, 2, 5, 15}

\* The fields of a full status frame.
StatusFields(f1, f4, f14) ==
    [i \in 1..15 |->
        CASE i = 1 -> VMGO
          [] i = 2 -> f1
          [] i = 5 -> f4
          [] i = 15 -> f14
          [] OTHER -> T00000]

StatusFrames ==
    {Join(SubSeq(StatusFields(f1, f4, f14), 1, n)) :
        f1 \in SpeedFields, f4 \in SensorsFields, f14 \in LedFields,
        n \in FrameLengths}

\* The prefix and field 1 alone, for every speed of one digit.
SpeedFrames ==
    {Join(<<VMGO, <<"0", "0", "0", "0", Chr(48 + k)>>>>) : k \in 0..9}

\* A status frame with speed 3, fields 2 to 4 that are no code, "00001" at
\* field 5 and "00032" at field 14.
ExampleFields(filler) ==
    [i \in 1..15 |->
        CASE i = 1 -> VMGO
          [] i = 2 -> T00003
          [] i \in 3..5 -> <<"x">>
          [] i = 6 -> T00001
          [] i = 15 -> T00032
          [] OTHER -> filler]

ExampleFrames == {Join(ExampleFields(f)) : f \in {T00000, T00001, <<"x">>}}

\* Replies that are no status frame: nothing, an error word, a sensors
\* frame, the prefix not at the start.
OtherTexts ==
    {<<>>,
     <<"E", "R", "R">>,
     <<"V", "M", "I", "O", ",", "0", "0", "2", "1", "5">>,
     <<"x", "V", "M", "G", "O", ",", "0", "0", "0", "0", "3">>}

\* A frame that continues after the prefix without a comma.
RunOnFrame == <<"V", "M", "G", "O", "x", ",", "0", "0", "0", "0", "3">>

\* A numeral no float holds.
HugeField == [i \in 1..(FloatDigits + 1) |-> "9"]

\* Temperature fields: positive, negative by the leading 1, a leading 1
\* in four and in six characters, negative zero, empty, blank, blank
\* around a value, no number, a signed value, a sign and an underscore
\* after the leading 1, the longest numeral.
TemperatureTexts ==
    {<<"0", "0", "2", "1", "5">>, <<"1", "0", "2", "0", "0">>,
     <<"1", "0", "2", "0">>, <<"1", "0", "0", "0", "0", "0">>,
     <<"1", "0", "0", "0", "0">>, <<>>, <<" ">>,
     <<" ", "1", "0", "2", "0", "0", " ">>, <<"x">>,
     <<"-", "0", "0", "5", "0">>, <<"1", "-", "2", "0", "0">>,
     <<"1", "_", "0", "0", "0">>, <<"2", ".", "5">>, HugeField}

\* Humidity fields: in range, zero, above 100, exactly 100, the least,
\* negative, with a decimal point, infinite, no number at all.
HumidityTexts ==
    {<<"0", "5", "0", "0">>, <<"0", "0", "0", "0">>, <<"1", "5", "0", "0">>,
     <<"1", "0", "0", "0">>, <<"0", "0", "0", "1">>, <<"1", "0", "0", "1">>,
     <<"-", "0", "5", "0">>, <<"4", "5", ".", "5">>, <<"i", "n", "f">>,
     <<"-", "i", "n", "f">>, <<"n", "a", "n">>, <<"x">>, <<>>, HugeField}

\* CO2 and VOC fields: positive, zero, negative, signed, with an
\* underscore, with a decimal point, no number at all.
IntTexts ==
    {<<"0", "4", "5", "0">>, <<"0", "0", "0", "0">>, <<"-", "5">>,
     <<"+", "7">>, <<"1", "_", "0">>, <<"4", ".", "5">>, <<"x">>, <<>>,
     <<"0", "0", "0", "0", "1">>}

\* The fields of a full sensors frame (lines 154-159).
ReadingFields(f1, f2, f3, f4, f11) ==
    [i \in 1..12 |->
        CASE i = 1 -> VMIO
          [] i = 2 -> f1
          [] i = 3 -> f2
          [] i = 4 -> f3
          [] i = 5 -> f4
          [] i = 12 -> f11
          [] OTHER -> T00000]

BaseReading ==
    ReadingFields(<<"0", "0", "2", "1", "5">>, <<"0", "0", "1", "8", "0">>,
                  <<"0", "5", "0", "0">>, <<"0", "4", "5", "0">>,
                  <<"0", "1", "2", "0">>)

\* The base frame with one field replaced.
VariedReadings ==
    {[BaseReading EXCEPT ![2] = t] : t \in TemperatureTexts}
    \cup {[BaseReading EXCEPT ![3] = t] : t \in TemperatureTexts}
    \cup {[BaseReading EXCEPT ![4] = t] : t \in HumidityTexts}
    \cup {[BaseReading EXCEPT ![5] = t] : t \in IntTexts}
    \cup {[BaseReading EXCEPT ![12] = t] : t \in IntTexts}

\* Sensors frames: the varied ones, the base frame cut after each field
\* that is read, and the base frame without its prefix.
SensorsFrames ==
    {Join(f) : f \in VariedReadings}
    \cup {Join(SubSeq(BaseReading, 1, n)) : n \in {1, 2, 3, 4, 5, 11, 12}}
    \cup {Join(Tail(BaseReading)), <<"V", "M", "I", "O", "x">>}

\* A sensors frame whose field 1 is a numeral no float holds.
HugeFrame == VMIO \o <<",">> \o HugeField

CRLF == <<"\r", "\n">>

QueryReplies ==
    {Encode(t) : t \in StatusFrames \cup SpeedFrames \cup ExampleFrames
                        \cup SensorsFrames \cup OtherTexts \cup {RunOnFrame}}
    \cup {Encode(t \o CRLF) : t \in OtherTexts}
    \cup {ReplyStatus, ReplyGarbled, Encode(HugeFrame)}

Outcomes ==
    {[step |-> s, bytes |-> <<>>] : s \in FailureSteps}
    \cup {[step |-> "complete", bytes |-> b] : b \in QueryReplies}

RawCommands == {CMD_SET_SPEED_3, LongCommand}

-----------------------------------------------------------------------------
(* The coordinator and the entities.  A refresh and an actuation handler    *)
(* run as two tasks; each is cut where it can be suspended, at the lock of  *)
(* _send_command and inside the exchange.  An exchange is seen as in        *)
(* QuerySpec, by the step it ended at and the bytes the device sent.        *)

VMWH == <<"V", "M", "W", "H">>

CMD_SET_SPEED_0 == VMWH \o <<"0", "0", "0", "0", "0", "0", "0">>
CMD_SET_SPEED_1 == VMWH \o <<"0", "0", "0", "0", "0", "0", "1">>
CMD_SET_SPEED_2 == VMWH \o <<"0", "0", "0", "0", "0", "0", "2">>
CMD_SET_SPEED_4 == VMWH \o <<"0", "0", "0", "0", "0", "0", "4">>
CMD_SET_BOOST == VMWH \o <<"0", "0", "0", "0", "0", "0", "5">>
CMD_SET_NIGHT == VMWH \o <<"0", "0", "0", "0", "0", "0", "6">>
CMD_SET_FREE_COOLING == VMWH \o <<"0", "0", "0", "0", "0", "0", "7">>
CMD_SENSORS_ON == VMWH \o <<"0", "3", "0", "0", "0", "0", "0">>
CMD_SENSORS_OFF == VMWH \o <<"0", "3", "0", "0", "0", "0", "2">>
CMD_LED_ON == VMWH \o <<"0", "1", "0", "0", "0", "1", "0">>
CMD_LED_OFF == VMWH \o <<"0", "1", "0", "0", "0", "0", "0">>
CMD_RESET_FILTER == VMWH \o <<"0", "4", "1", "7", "7", "4", "4">>

\* SPEED_COMMANDS.get(name) (src/const.py lines 43-52): None for a name
\* that is no key.
SPEED_COMMANDS(name) ==
    CASE name = "off" -> Some(CMD_SET_SPEED_0)
      [] name = "speed_1" -> Some(CMD_SET_SPEED_1)
      [] name = "speed_2" -> Some(CMD_SET_SPEED_2)
      [] name = "speed_3" -> Some(CMD_SET_SPEED_3)
      [] name = "speed_4" -> Some(CMD_SET_SPEED_4)
      [] name = "boost" -> Some(CMD_SET_BOOST)
      [] name = "night" -> Some(CMD_SET_NIGHT)
      [] name = "free_cooling" -> Some(CMD_SET_FREE_COOLING)
      [] OTHER -> Nothing

\* The keys of BUTTON_DESCRIPTIONS (src/button.py lines 40-107)
ButtonKeys ==
    {"speed_0", "speed_1", "speed_2", "speed_3", "speed_4", "boost",
     "night_mode", "free_cooling", "led_on", "led_off", "reset_filter"}

\* entity_description.command
ButtonCommand(key) ==
    CASE key = "speed_0" -> CMD_SET_SPEED_0
      [] key = "speed_1" -> CMD_SET_SPEED_1
      [] key = "speed_2" -> CMD_SET_SPEED_2
      [] key = "speed_3" -> CMD_SET_SPEED_3
      [] key = "speed_4" -> CMD_SET_SPEED_4
      [] key = "boost" -> CMD_SET_BOOST
      [] key = "night_mode" -> CMD_SET_NIGHT
      [] key = "free_cooling" -> CMD_SET_FREE_COOLING
      [] key = "led_on" -> CMD_LED_ON
      [] key = "led_off" -> CMD_LED_OFF
      [] key = "reset_filter" -> CMD_RESET_FILTER

\* The f-string "speed_{speed}" for the speeds async_turn_on computes.
SpeedName(speed) == <<"speed_1", "speed_2", "speed_3", "speed_4">>[speed]

\* max(1, min(4, (percentage + 24) // 25)) (src/fan.py line 108)
PercentageSpeed(percentage) ==
    LET q == (percentage + 24) \div 25
        low == IF q < 4 THEN q ELSE 4
    IN  IF low > 1 THEN low ELSE 1

\* The command async_turn_on sends (src/fan.py lines 97-117); None and the
\* values Python takes for false alike are "" and 0.
TurnOnCommand(percentage, preset_mode) ==
    IF preset_mode # "" THEN SPEED_COMMANDS(preset_mode)
    ELSE IF percentage # 0
    THEN SPEED_COMMANDS(SpeedName(PercentageSpeed(percentage)))
    ELSE SPEED_COMMANDS("speed_2")

\* What the handlers are called with: a preset of the fan, one it does not
\* have, none; no percentage, the least, the ends of a step, the most.
Presets == {"", "speed_1", "boost", "turbo"}
Percentages == {0, 1, 25, 26, 100}

\* coordinator.data before the first refresh, and a snapshot (lines 43-46).
NoData == [present |-> FALSE, status |-> StatusDefault, sensors |-> SensorsDefault]
Snapshot(status, sensors) ==
    [present |-> TRUE, status |-> status, sensors |-> sensors]

\* What the device does to an exchange of a refresh or of an actuation:
\* no answer, a status frame, a status frame whose speed is no integer, an
\* error word, a byte that is no text, a sensors frame.
HomeOutcomes ==
    {[step |-> "read_timeout", bytes |-> <<>>]}
    \cup {[step |-> "complete", bytes |-> b] :
            b \in {Encode(Join(StatusFields(T00003, T00001, T00032))),
                   Encode(Join(StatusFields(<<"x", "3">>, T00001, T00032))),
                   Encode(<<"E", "R", "R">>),
                   ReplyGarbled,
                   Encode(Join(BaseReading))}}

\* What get_status, get_sensors and send_raw_command give for an exchange.
StatusResult(io) == Through(SendCommand(io), StatusOf(SendCommand(io).val))

SensorsResult(io) ==
    IF SendCommand(io).kind = "returned" /\ SensorsRaise(SendCommand(io).val)
    THEN Raised
    ELSE Through(SendCommand(io), SensorsOf(SendCommand(io).val))

RawResult(io) == Through(SendCommand(io), RawOk(SendCommand(io).val))

\* A timer or a request starts a refresh: _async_update_data is called and
\* get_status waits for the lock (src/coordinator.py lines 35-38).
RefreshStart ==
    /\ rpc = "idle"
    /\ rpc' = "status_wait"
    /\ rsent' = <<>>
    /\ rstatus' = Pending
    /\ rlast' = "running"
    /\ requested' = FALSE
    /\ UNCHANGED <<busy, coordinatorData, actuationVars, sendVars, queryVars>>

\* get_status enters "async with self._lock" and sends its command.
RefreshStatusBegin ==
    /\ rpc = "status_wait"
    /\ busy = "none"
    /\ busy' = "refresh"
    /\ rpc' = "status_exchange"
    /\ rsent' = Append(rsent, CMD_GET_STATUS)
    /\ UNCHANGED <<coordinatorData, rstatus, rlast, requested, actuationVars,
                   sendVars, queryVars>>

\* The status exchange ends; get_sensors is called next, unless get_status
\* raised, which "except Exception" turns into UpdateFailed (lines 37-50).
RefreshStatusEnd(io) ==
    /\ rpc = "status_exchange"
    /\ busy' = "none"
    /\ LET status == StatusResult(io) IN
       IF status.kind = "returned"
       THEN rpc' = "sensors_wait" /\ rstatus' = status /\ rlast' = rlast
       ELSE rpc' = "idle" /\ rstatus' = Pending /\ rlast' = "raised"
    /\ UNCHANGED <<coordinatorData, rsent, requested, actuationVars, sendVars,
                   queryVars>>

\* get_sensors enters "async with self._lock" and sends its command.
RefreshSensorsBegin ==
    /\ rpc = "sensors_wait"
    /\ busy = "none"
    /\ busy' = "refresh"
    /\ rpc' = "sensors_exchange"
    /\ rsent' = Append(rsent, CMD_GET_SENSORS)
    /\ UNCHANGED <<coordinatorData, rstatus, rlast, requested, actuationVars,
                   sendVars, queryVars>>

\* Every status published.
PublishesAlways(status) == TRUE

\* "if not status.is_online: raise UpdateFailed" (lines 40-41)
Publishes(status) == status.is_online

\* The sensors exchange ends: the snapshot is returned and held, or the
\* refresh fails, for an exception of get_sensors or for the offline
\* status, and the data stays (lines 38-50).
RefreshSensorsEnd(io) ==
    /\ rpc = "sensors_exchange"
    /\ busy' = "none"
    /\ rpc' = "idle"
    /\ rstatus' = Pending
    /\ LET sensors == SensorsResult(io) IN
       IF sensors.kind # "returned"
       THEN coordinatorData' = coordinatorData /\ rlast' = "raised"
       ELSE IF ~Publishes(rstatus.val)
       THEN coordinatorData' = coordinatorData /\ rlast' = "offline"
       ELSE /\ coordinatorData' = Snapshot(rstatus.val, sensors.val)
            /\ rlast' = "published"
    /\ UNCHANGED <<rsent, requested, actuationVars, sendVars, queryVars>>

\* A handler is called; the entities exist once the first refresh has
\* succeeded (src/__init__.py lines 26-35).  With a command it calls
\* send_raw_command, which waits for the lock; without one it returns.
Actuate(cmd) ==
    /\ apc = "idle"
    /\ coordinatorData.present
    /\ apc' = IF cmd.present THEN "command_wait" ELSE "ignored"
    /\ acmd' = cmd.v
    /\ asent' = 0
    /\ areq' = FALSE
    /\ UNCHANGED <<busy, requested, refreshVars, sendVars, queryVars>>

\* HeltyVMCButton.async_press (src/button.py lines 162-166)
ButtonPress(key) ==
    /\ key \in ButtonKeys
    /\ Actuate(Some(ButtonCommand(key)))

\* HeltyVMCFan.async_turn_on (src/fan.py lines 97-117)
FanTurnOn(percentage, preset_mode) ==
    /\ percentage \in 0..100
    /\ Actuate(TurnOnCommand(percentage, preset_mode))

\* HeltyVMCFan.async_turn_off (src/fan.py lines 119-122)
FanTurnOff ==
    /\ apc = "idle"
    /\ Actuate(SPEED_COMMANDS("off"))

\* HeltyVMCFan.async_set_preset_mode (src/fan.py lines 124-129)
FanSetPresetMode(preset_mode) ==
    /\ preset_mode # ""
    /\ Actuate(SPEED_COMMANDS(preset_mode))

\* HeltyVMCLedSwitch (src/switch.py lines 76-84)
LedTurnOn ==
    /\ apc = "idle"
    /\ Actuate(Some(CMD_LED_ON))

LedTurnOff ==
    /\ apc = "idle"
    /\ Actuate(Some(CMD_LED_OFF))

\* HeltyVMCSensorsSwitch (src/switch.py lines 129-137)
SensorsTurnOn ==
    /\ apc = "idle"
    /\ Actuate(Some(CMD_SENSORS_ON))

SensorsTurnOff ==
    /\ apc = "idle"
    /\ Actuate(Some(CMD_SENSORS_OFF))

\* send_raw_command enters "async with self._lock" and sends the command.
CommandBegin ==
    /\ apc = "command_wait"
    /\ busy = "none"
    /\ busy' = "actuation"
    /\ apc' = "command_exchange"
    /\ asent' = asent + 1
    /\ UNCHANGED <<acmd, areq, requested, refreshVars, sendVars, queryVars>>

\* The command's exchange ends: send_raw_command returns and the handler
\* calls async_request_refresh, or the exception of send_raw_command
\* leaves the handler.
CommandEnd(io) ==
    /\ apc = "command_exchange"
    /\ busy' = "none"
    /\ acmd' = <<>>
    /\ IF RawResult(io).kind = "returned"
       THEN apc' = "done" /\ areq' = TRUE /\ requested' = TRUE
       ELSE apc' = "raised" /\ areq' = areq /\ requested' = requested
    /\ UNCHANGED <<asent, refreshVars, sendVars, queryVars>>

\* The handler has ended; the next one can be called.
ActuationAgain ==
    /\ apc \in {"done", "raised", "ignored"}
    /\ apc' = "idle"
    /\ acmd' = <<>>
    /\ asent' = 0
    /\ areq' = FALSE
    /\ UNCHANGED <<busy, requested, refreshVars, sendVars, queryVars>>

SendInit ==
    /\ pc = [c \in Callers |-> "idle"]
    /\ command = [c \in Callers |-> <<>>]
    /\ locked = FALSE
    /\ waiters = <<>>
    /\ woken = {}
    /\ conn = [c \in Callers |-> NoConn]
    /\ response = [c \in Callers |-> <<>>]
    /\ result = [c \in Callers |-> Pending]
    /\ order = <<>>
    /\ deviceUp = TRUE

QueryIdle ==
    /\ qpc = "ready"
    /\ qop = "none"
    /\ qsent = <<>>
    /\ qio = [step |-> "none", bytes |-> <<>>]
    /\ qresult = Pending

HomeIdle ==
    /\ busy = "none"
    /\ coordinatorData = NoData
    /\ requested = FALSE
    /\ rpc = "idle"
    /\ rsent = <<>>
    /\ rstatus = Pending
    /\ rlast = "none"
    /\ apc = "idle"
    /\ acmd = <<>>
    /\ asent = 0
    /\ areq = FALSE

Init == SendInit /\ QueryIdle /\ HomeIdle

Next ==
    \/ \E c \in Callers, cmd \in SendCommands : Call(c, cmd)
    \/ \E c \in Callers : Resume(c)
    \/ \E c \in Callers : ConnectOk(c)
    \/ \E c \in Callers : ConnectTimeout(c)
    \/ \E c \in Callers : ConnectRefused(c)
    \/ \E c \in Callers : DrainDone(c)
    \/ \E c \in Callers : DrainError(c)
    \/ \E c \in Callers, bytes \in SendReplies : DeviceReply(c, bytes)
    \/ \E c \in Callers : ReadDone(c)
    \/ \E c \in Callers : ReadTimeout(c)
    \/ \E c \in Callers : ReadReset(c)
    \/ \E c \in Callers : WaitClosed(c)
    \/ \E c \in Callers : WaitClosedError(c)
    \/ \E c \in Callers : Again(c)
    \/ DeviceStops
    \/ DeviceRecovers

Spec == Init /\ [][Next]_vars

QueryNext ==
    \/ \E io \in Outcomes : GetStatus(io)
    \/ \E io \in Outcomes : GetSensors(io)
    \/ \E io \in Outcomes : GetInfo(io)
    \/ \E io \in Outcomes : CheckConnection(io)
    \/ \E cmd \in RawCommands, io \in Outcomes : SendRawCommand(cmd, io)
    \/ QueryAgain

QuerySpec == Init /\ [][QueryNext]_vars

HomeNext ==
    \/ RefreshStart
    \/ RefreshStatusBegin
    \/ \E io \in HomeOutcomes : RefreshStatusEnd(io)
    \/ RefreshSensorsBegin
    \/ \E io \in HomeOutcomes : RefreshSensorsEnd(io)
    \/ \E key \in ButtonKeys : ButtonPress(key)
    \/ \E p \in Percentages, m \in Presets : FanTurnOn(p, m)
    \/ FanTurnOff
    \/ \E m \in Presets : FanSetPresetMode(m)
    \/ LedTurnOn
    \/ LedTurnOff
    \/ SensorsTurnOn
    \/ SensorsTurnOff
    \/ CommandBegin
    \/ \E io \in HomeOutcomes : CommandEnd(io)
    \/ ActuationAgain

HomeSpec == Init /\ [][HomeNext]_vars

-----------------------------------------------------------------------------
(* Properties of the exchange (Spec) *)

\* C1: at most one caller is between the connect and the end of its
\* connect-write-read-close exchange at any time, so no step of one
\* exchange falls inside another.
OneExchangeAtATime ==
    \A c, d \in Callers :
        (pc[c] \in InExchange /\ pc[d] \in InExchange) => c = d

\* C1 happens: one caller is reading while another waits at the gate.
OneExchangeWitness ==
    \E c, d \in Callers : pc[c] = "read" /\ pc[d] = "waiting"

\* C2: _send_command returns the received text, trimmed, when the exchange
\* completed with bytes that are text, and returns None, no exception, when
\* the connect timed out or failed (no connection), the read timed out (the
\* connection still open) or a step failed with an I/O error (reset).
TrimmedTextOrAbsent ==
    \A c \in Callers :
        pc[c] = "done" =>
            /\ conn[c].state \in {"none", "open", "reset"} =>
                  result[c] = Returned(Nothing)
            /\ (conn[c].state = "closed" /\ Decodable(response[c])) =>
                  /\ result[c].kind = "returned"
                  /\ result[c].val.present
                  /\ result[c].val.v = Strip(DecodeText(response[c]))
                  /\ result[c].val.v = <<>>
                        \/ /\ Head(result[c].val.v) \notin Whitespace
                           /\ result[c].val.v[Len(result[c].val.v)]
                                 \notin Whitespace

\* C2 happens: one call returned a text shorter than the bytes received and
\* another returned None after its read timed out.
TrimmedTextWitness ==
    \E c, d \in Callers :
        /\ pc[c] = "done" /\ conn[c].state = "closed"
        /\ result[c].val.present
        /\ result[c].val.v # <<>>
        /\ Len(result[c].val.v) < Len(response[c])
        /\ pc[d] = "done" /\ conn[d].state = "open"
        /\ result[d] = Returned(Nothing)

AbortReleasesGate ==
    [][\A c \in Callers :
          /\ (pc[c] \in InExchange /\ pc'[c] = "done"
                /\ result'[c] = Returned(Nothing)) =>
                /\ ~locked'
                /\ waiters # <<>> =>
                      /\ Head(waiters') \in woken'
                      /\ pc'[Head(waiters')] = "waiting"
                /\ \A d \in Callers \ {c} :
                      /\ result'[d] = result[d]
                      /\ response'[d] = response[d]
                      /\ conn'[d] = conn[d]
          /\ (pc[c] = "read" /\ pc'[c] = "wait_closed") =>
                /\ conn[c].inbox.present
                /\ response'[c] = conn[c].inbox.v
                /\ conn[c].sent = Encode(command[c])]_vars

\* C5 happens: a read timed out, its connection is still open, the lock is
\* free and the caller that waited has been woken.
AbortReleasesWitness ==
    \E c, d \in Callers :
        /\ pc[c] = "done" /\ result[c] = Returned(Nothing)
        /\ conn[c].state = "open"
        /\ pc[d] = "waiting" /\ d \in woken
        /\ ~locked

\* C6: the caller inside an exchange is the one that arrived first among
\* the callers that have not finished, so exchanges begin and end in
\* arrival order.
ServedInArrivalOrder ==
    \A c \in Callers :
        pc[c] \in InExchange => (order # <<>> /\ Head(order) = c)

\* C6 happens: the lock is free and two callers are queued, the first one
\* woken, the second one arrived after the release.
ArrivalOrderWitness ==
    \E c, d \in Callers :
        /\ waiters = <<c, d>>
        /\ c \in woken
        /\ ~locked

\* C7: when _send_command has returned, the connection its call opened is
\* closed.
ConnectionClosedOnReturn ==
    \A c \in Callers : pc[c] = "done" => conn[c].state # "open"

-----------------------------------------------------------------------------
(* Properties of the queries (QuerySpec) *)

\* What _send_command returned to the query that ran.
qresp == SendCommand(qio).val

\* The reply was a status frame whose field 1 is an integer.
ValidStatusFrame ==
    /\ qresp.present
    /\ StartsWith(qresp.v, VMGO)
    /\ Len(Split(qresp.v)) > 1
    /\ IntOk(Split(qresp.v)[2])

\* C3: every query returns a value, whatever the exchange did and whatever
\* the device sent.
QueriesTotal == qpc = "returned" => qresult.kind = "returned"

\* C8: a status with is_online true was built from a valid status frame.
OnlineOnlyWithFrame ==
    (qpc = "returned" /\ qop = "get_status" /\ qresult.kind = "returned"
        /\ qresult.val.is_online) => ValidStatusFrame

\* C9: without the prefix VMGO the status is the default one with is_online
\* telling whether a response was present.
NoPrefixStatus ==
    (qpc = "returned" /\ qop = "get_status" /\ qresult.kind = "returned"
        /\ ~(qresp.present /\ StartsWith(qresp.v, VMGO))) =>
        /\ qresult.val.is_online = qresp.present
        /\ qresult.val.speed = 0
        /\ qresult.val.speed_mode = "off"
        /\ qresult.val.led_on = NoBool
        /\ qresult.val.led_filter_warning = FALSE
        /\ qresult.val.sensors_on = NoBool

\* C9 happens: a present response without the prefix gave is_online true.
NoPrefixWitness ==
    /\ qpc = "returned" /\ qop = "get_status"
    /\ qio.step = "complete" /\ qio.bytes = Encode(<<"E", "R", "R">>)
    /\ qresult.kind = "returned"
    /\ qresult.val.is_online

\* C10: with the prefix VMGO, an integer field 1 gives speed, its table
\* value and is_online true; a field 1 that is missing or no integer leaves
\* speed 0, "off" and is_online false; fields 4 and 14 are decoded whenever
\* the frame has them.
PrefixStatus ==
    (qpc = "returned" /\ qop = "get_status" /\ qresult.kind = "returned"
        /\ qresp.present /\ StartsWith(qresp.v, VMGO)) =>
        LET parts == Split(qresp.v) IN
        /\ ValidStatusFrame =>
              /\ qresult.val.speed = IntVal(parts[2])
              /\ qresult.val.speed_mode = SpeedMode(qresult.val.speed)
              /\ qresult.val.is_online
        /\ ~ValidStatusFrame =>
              /\ qresult.val.speed = 0
              /\ qresult.val.speed_mode = "off"
              /\ ~qresult.val.is_online
        /\ qresult.val.sensors_on.present = (Len(parts) >= 5)
        /\ qresult.val.led_on.present = (Len(parts) >= 15)
        /\ Len(parts) >= 5 =>
              qresult.val.sensors_on.v = (parts[5] \in {T00000, T00001})
        /\ Len(parts) >= 15 =>
              /\ qresult.val.led_on.v = (parts[15] # T00000)
              /\ qresult.val.led_filter_warning = (parts[15] = T00032)

\* C10 happens: field 1 is no integer, the status is offline with speed 0,
\* and fields 4 and 14 were decoded all the same.
PrefixWitness ==
    /\ qpc = "returned" /\ qop = "get_status"
    /\ qio.step = "complete"
    /\ qio.bytes = Encode(Join(StatusFields(<<"x", "3">>, T00001, T00032)))
    /\ ~qresult.val.is_online
    /\ qresult.val.speed = 0
    /\ qresult.val.sensors_on = SomeBool(TRUE)
    /\ qresult.val.led_filter_warning

\* C11: in every status get_status returns, speed_mode is the table's name
\* for speed: "off" for 0, "speed_1".."speed_4" for 1..4, "boost" for 5,
\* "night" for 6, "free_cooling" for 7, "unknown" for any other speed.
SpeedModeFromTable ==
    (qpc = "returned" /\ qop = "get_status" /\ qresult.kind = "returned") =>
        LET s == qresult.val.speed
            m == qresult.val.speed_mode
        IN  /\ s = 0 => m = "off"
            /\ s \in 1..4 =>
                  m = <<"speed_1", "speed_2", "speed_3", "speed_4">>[s]
            /\ s = 5 => m = "boost"
            /\ s = 6 => m = "night"
            /\ s = 7 => m = "free_cooling"
            /\ s \notin 0..7 => m = "unknown"

\* C11 happens: a frame gave a speed outside the table and "unknown".
SpeedModeWitness ==
    /\ qpc = "returned" /\ qop = "get_status"
    /\ qresult.kind = "returned"
    /\ qresult.val.speed = 9
    /\ qresult.val.speed_mode = "unknown"
    /\ qresult.val.is_online

\* C12: for a response with the prefix VMGO, get_status returns; sensors_on
\* is set exactly when the frame has a field 4, to whether that field is
\* "00000" or "00001"; led_on and led_filter_warning are set from field 14
\* exactly when the frame has it, led_on to whether it differs from "00000"
\* and led_filter_warning to whether it is "00032"; a frame too short for a
\* field leaves its output at the default.
SensorsAndLedFields ==
    (qpc = "returned" /\ qop = "get_status"
        /\ qresp.present /\ StartsWith(qresp.v, VMGO)) =>
        LET n == Len(Split(qresp.v))
            f4 == IF n > 4 THEN Split(qresp.v)[5] ELSE <<>>
            f14 == IF n > 14 THEN Split(qresp.v)[15] ELSE <<>>
        IN  /\ qresult.kind = "returned"
            /\ IF n > 4
               THEN qresult.val.sensors_on =
                       [present |-> TRUE,
                        v |-> (f4 = <<"0", "0", "0", "0", "0">>
                                 \/ f4 = <<"0", "0", "0", "0", "1">>)]
               ELSE ~qresult.val.sensors_on.present
            /\ IF n > 14
               THEN /\ qresult.val.led_on =
                          [present |-> TRUE,
                           v |-> (f14 # <<"0", "0", "0", "0", "0">>)]
                    /\ qresult.val.led_filter_warning =
                          (f14 = <<"0", "0", "0", "3", "2">>)
               ELSE /\ ~qresult.val.led_on.present
                    /\ ~qresult.val.led_filter_warning

\* C12 happens: a frame that ends at field 4, whose field 4 is neither
\* "00000" nor "00001", gave sensors_on false and no led_on.
ShortFrameWitness ==
    /\ qpc = "returned" /\ qop = "get_status"
    /\ qio.step = "complete"
    /\ qio.bytes = Encode(Join(SubSeq(StatusFields(T00003, T00002, T00032), 1, 5)))
    /\ qresult.kind = "returned"
    /\ qresult.val.sensors_on = SomeBool(FALSE)
    /\ qresult.val.led_on = NoBool

\* get_status ran on one of the example frames.
StatusOfExample ==
    /\ qpc = "returned" /\ qop = "get_status"
    /\ qresp.present /\ qresp.v \in ExampleFrames

\* C13 as stated: the frame VMGO,00003,x,x,x,00001,...,00032 decodes to
\* speed 3, "speed_3", is_online, sensors_on true, led_on true and
\* led_filter_warning true.
ExampleAllOn ==
    StatusOfExample =>
        /\ qresult.kind = "returned"
        /\ qresult.val.speed = 3
        /\ qresult.val.speed_mode = "speed_3"
        /\ qresult.val.is_online
        /\ qresult.val.sensors_on = SomeBool(TRUE)
        /\ qresult.val.led_on = SomeBool(TRUE)
        /\ qresult.val.led_filter_warning

\* C13: the frame VMGO,00003,x,x,x,00001,...,00032 decodes to speed 3,
\* "speed_3", is_online, led_on true and led_filter_warning true, and to
\* sensors_on false, its field 4 being "x".
ExampleSensorsOff ==
    StatusOfExample =>
        /\ qresult.kind = "returned"
        /\ qresult.val.speed = 3
        /\ qresult.val.speed_mode = "speed_3"
        /\ qresult.val.is_online
        /\ qresult.val.sensors_on = SomeBool(FALSE)
        /\ qresult.val.led_on = SomeBool(TRUE)
        /\ qresult.val.led_filter_warning

\* C13 happens: get_status returned for the example frame.
ExampleWitness ==
    /\ StatusOfExample
    /\ qio.bytes = Encode(Join(ExampleFields(T00000)))
    /\ qresult.kind = "returned"
    /\ qresult.val.is_online
    /\ qresult.val.sensors_on = SomeBool(FALSE)
    /\ qresult.val.led_filter_warning

SensorsDecoded ==
    /\ qpc = "returned" /\ qop = "get_sensors"
    /\ qresp.present
    /\ StartsWith(qresp.v, VMIO) \/ Contains(qresp.v, ",")

\* C15: for every field 1 and field 2 the call returns, and the
\* temperature is absent when the trimmed field is empty; minus a tenth of
\* the integer after the leading 1 when the trimmed field has five
\* characters and begins with 1; a tenth of the whole integer, not
\* negated, for any other field; absent when the part read is no integer.
TemperatureRule ==
    SensorsDecoded =>
        LET parts == Split(qresp.v)
            ruled(f, got) ==
                LET t == Strip(f)
                    coded == Len(t) = 5 /\ t[1] = "1"
                    numeric == IF coded THEN IntOk(Tail(t)) ELSE IntOk(t)
                    tenths == IF coded THEN 0 - IntVal(Tail(t)) ELSE IntVal(t)
                IN  IF t = <<>> \/ ~numeric
                    THEN ~got.present
                    ELSE got.present /\ got.v = Norm(tenths, 1)
        IN  /\ Len(parts) >= 2 =>
                  /\ qresult.kind = "returned"
                  /\ ruled(parts[2], qresult.val.temperature_internal)
            /\ Len(parts) >= 3 =>
                  /\ qresult.kind = "returned"
                  /\ ruled(parts[3], qresult.val.temperature_external)

\* C16: for every field 3, the humidity is absent when float() refuses the
\* field or a tenth of its value is not above 0, exactly 100.0 when a tenth
\* of its value is above 100.0, and a tenth of its value otherwise; a
\* humidity that is present is above 0 and at most 100.0.
HumidityRule ==
    (SensorsDecoded /\ qresult.kind = "returned"
        /\ Len(Split(qresp.v)) >= 4) =>
        LET f == Split(qresp.v)[4]
            h == qresult.val.humidity_internal
            x == FloatVal(f)
            above0 == x.kind = "inf" \/ (x.kind = "finite" /\ x.num > 0)
            above100 ==
                x.kind = "inf"
                    \/ (x.kind = "finite" /\ x.num > 1000 * Pow10(x.scale))
        IN  /\ h.present =>
                  /\ h.v.kind = "finite"
                  /\ h.v.num > 0
                  /\ h.v.num <= 100 * Pow10(h.v.scale)
            /\ IF ~FloatOk(f) THEN ~h.present
               ELSE IF ~above0 THEN ~h.present
               ELSE IF above100 THEN h = SomeNumber(Norm(100, 0))
               ELSE h = SomeNumber(Norm(x.num, x.scale + 1))

\* C16 happens: the field "1500" gave the humidity 100.0.
HumidityCappedWitness ==
    /\ SensorsDecoded
    /\ Len(Split(qresp.v)) >= 4
    /\ Split(qresp.v)[4] = <<"1", "5", "0", "0">>
    /\ qresult.kind = "returned"
    /\ qresult.val.humidity_internal = SomeNumber(Norm(100, 0))

\* C17: for every field 4 and field 11, co2 and voc are the field's
\* integer when it is above 0, and absent when it is zero, negative or no
\* integer; a reading that is present is above 0.
PositiveIntRule ==
    (SensorsDecoded /\ qresult.kind = "returned"
        /\ Len(Split(qresp.v)) >= 12) =>
        LET parts == Split(qresp.v)
            ruled(f, got) ==
                /\ got.present => got.v > 0
                /\ got.present = (IntOk(f) /\ IntVal(f) > 0)
                /\ got.present => got.v = IntVal(f)
        IN  /\ ruled(parts[5], qresult.val.co2)
            /\ ruled(parts[12], qresult.val.voc)

\* C17 happens: the field "-5" left co2 absent beside a voc of 120.
NegativeIntWitness ==
    /\ SensorsDecoded
    /\ Len(Split(qresp.v)) >= 12
    /\ Split(qresp.v)[5] = <<"-", "5">>
    /\ qresult.kind = "returned"
    /\ qresult.val.co2 = NoInt
    /\ qresult.val.voc = SomeInt(120)

\* The fields of a and b are as many and differ at index i only.
DifferAt(a, b, i) ==
    /\ Len(a) = Len(b)
    /\ i \in 1..Len(a)
    /\ a[i] # b[i]
    /\ \A j \in 1..Len(a) : j # i => a[j] = b[j]

\* C18: of two responses with as many fields that differ in one field
\* after the prefix only, get_sensors and get_status return for both, and
\* every output read from another field is the same for both: the
\* temperatures outside fields 1 and 2, the humidity outside field 3, co2
\* outside field 4 and voc outside field 11; speed, speed_mode and
\* is_online outside field 1, sensors_on outside field 4, led_on and
\* led_filter_warning outside field 14.
FieldIndependence ==
    (qpc = "returned" /\ qop \in {"get_sensors", "get_status"}
        /\ qresp.present) =>
        \A b \in QueryReplies :
            LET sent == SendCommand([step |-> "complete", bytes |-> b])
                other == sent.val
                mine == Split(qresp.v)
            IN  \A i \in 2..Len(mine) :
                    (sent.kind = "returned"
                        /\ DifferAt(mine, Split(other.v), i)) =>
                    /\ qresult.kind = "returned"
                    /\ qop = "get_sensors" =>
                          LET r == qresult.val
                              o == SensorsOf(other)
                          IN  /\ ~SensorsRaise(other)
                              /\ i # 2 => r.temperature_internal
                                              = o.temperature_internal
                              /\ i # 3 => r.temperature_external
                                              = o.temperature_external
                              /\ i # 4 => r.humidity_internal
                                              = o.humidity_internal
                              /\ i # 5 => r.co2 = o.co2
                              /\ i # 12 => r.voc = o.voc
                    /\ qop = "get_status" =>
                          LET r == qresult.val
                              o == StatusOf(other)
                          IN  /\ i # 2 => /\ r.speed = o.speed
                                          /\ r.speed_mode = o.speed_mode
                                          /\ r.is_online = o.is_online
                              /\ i # 5 => r.sensors_on = o.sensors_on
                              /\ i # 15 =>
                                    /\ r.led_on = o.led_on
                                    /\ r.led_filter_warning
                                          = o.led_filter_warning

\* C19: send_raw_command returns TRUE when the exchange got as far as a
\* response, whatever text it holds, the empty one included, and FALSE
\* when the exchange ended in a timeout or an I/O error, and in no other
\* case.
RawCommandResult ==
    (qpc = "returned" /\ qop = "send_raw_command"
        /\ SendCommand(qio).kind = "returned") =>
        /\ qresult.kind = "returned"
        /\ qresult.val = TRUE <=> qio.step = "complete"
        /\ qresult.val = FALSE <=> qio.step \in FailureSteps

\* C19 happens: the device closed without sending anything, the response
\* is the empty string and send_raw_command returned TRUE.
RawEmptyWitness ==
    /\ qpc = "returned" /\ qop = "send_raw_command"
    /\ qio.step = "complete" /\ qio.bytes = <<>>
    /\ qresp = Some(<<>>)
    /\ qresult = Returned(TRUE)

\* C20: check_connection sends "VMGH?", once, and returns TRUE when the
\* response is there and begins with VMGO, FALSE when there is none or it
\* begins otherwise.
ConnectionResult ==
    (qpc = "returned" /\ qop = "check_connection"
        /\ SendCommand(qio).kind = "returned") =>
        /\ qsent = <<"V", "M", "G", "H", "?">>
        /\ qresult.kind = "returned"
        /\ qresult.val = TRUE <=>
              /\ qio.step = "complete"
              /\ Len(qresp.v) >= 4
              /\ <<qresp.v[1], qresp.v[2], qresp.v[3], qresp.v[4]>>
                    = <<"V", "M", "G", "O">>
        /\ qresult.val \in BOOLEAN

\* C20 happens: a response with text before the prefix gave FALSE.
NoConnectionWitness ==
    /\ qpc = "returned" /\ qop = "check_connection"
    /\ qio.step = "complete"
    /\ qio.bytes =
          Encode(<<"x", "V", "M", "G", "O", ",", "0", "0", "0", "0", "3">>)
    /\ qresult = Returned(FALSE)

-----------------------------------------------------------------------------
(* Properties of the coordinator and the entities (HomeSpec) *)

\* C21: every snapshot the coordinator holds has a status with is_online
\* true; a refresh exchanges the status command and then the sensors
\* command, begins the sensors exchange only with a status that get_status
\* returned, and publishes or fails for an offline status only after both
\* exchanges.
SnapshotsOnline ==
    /\ coordinatorData.present => coordinatorData.status.is_online
    /\ rsent \in {<<>>, <<CMD_GET_STATUS>>, <<CMD_GET_STATUS, CMD_GET_SENSORS>>}
    /\ rpc \in {"sensors_wait", "sensors_exchange"} =>
          /\ rstatus.kind = "returned"
          /\ rsent[1] = CMD_GET_STATUS
    /\ rlast \in {"published", "offline"} =>
          rsent = <<CMD_GET_STATUS, CMD_GET_SENSORS>>

\* C21 happens: a refresh got an offline status, made both exchanges and
\* failed, and the snapshot of an earlier refresh is still held.
OfflineRefreshWitness ==
    /\ rpc = "idle"
    /\ rlast = "offline"
    /\ rsent = <<CMD_GET_STATUS, CMD_GET_SENSORS>>
    /\ coordinatorData.present
    /\ coordinatorData.status.is_online

\* C22: a handler that has ended after calling send_raw_command began one
\* exchange and has requested a refresh; the refresh is requested only
\* once the command's exchange has ended, and no handler begins a second
\* exchange.
ActuationThenRefresh ==
    /\ asent <= 1
    /\ apc \in {"done", "raised"} => asent = 1 /\ areq
    /\ areq => apc = "done"
    /\ apc \in {"command_wait", "command_exchange"} => ~areq

====
